---- MODULE Spec2Model ----
(***************************************************************************)
(* Verification model of the intro_ml_pytorch notebooks.                   *)
(*                                                                         *)
(* Two notebooks carry behaviour of their own:                             *)
(*   - the cross-entropy notebook: cross_entropy and m_cross_entropy,      *)
(*     called on two lists Y and P;                                        *)
(*   - the training notebook: the epoch/batch training loop.               *)
(* A run executes one notebook; nb says which.                             *)
(*                                                                         *)
(* Numbers.  A label (entry of Y) is kept in halves: the integer h stands  *)
(* for h/2, so 2 is the label 1 and 1 is the label 0.5.  A probability     *)
(* (entry of P) is a rational <<n, d>> with d > 0.  A computed value is a  *)
(* record: kind "fin" with a vector v over the primes 2, 3, 5, 7 standing  *)
(* for (v[1]*ln 2 + v[2]*ln 3 + v[3]*ln 5 + v[4]*ln 7) / 2, or one of the  *)
(* floating-point specials "inf", "ninf", "nan".  The logarithms of the    *)
(* primes are linearly independent over the rationals, so two finite       *)
(* values are equal exactly when their vectors are.  Rounding of float64   *)
(* is not modelled: finite arithmetic is exact.                            *)
(***************************************************************************)
EXTENDS Integers, Sequences, FiniteSets, TLC

VARIABLES nb,            \* the notebook being run: "ce" or "train"
          argY, argP,    \* the caller's lists passed as Y and P
          out,           \* the calls made so far: fn, arguments as passed, value returned
          pc,            \* the statement of the training cell to run next
          nBatches,      \* len(trainloader)
          e,             \* the epoch counter of "for e in range(epochs)"
          b,             \* the batches the inner loop has drawn in this epoch
          w,             \* a model weight, in thousandths
          grad,          \* its .grad: None, or <<g>>
          loss,          \* the loss tensor: its item and its gradient for w
          running_loss,  \* running_loss
          printed,       \* the "Training loss" lines: <<running_loss, len(trainloader)>>
          ops,           \* the statements run so far for the current batch
          fetched,       \* batches drawn so far, over all epochs
          steps,         \* optimizer.step() calls so far
          batch_losses,  \* the loss values of the batches of this epoch so far
          cell,          \* autograd cells: the cell to run next
          tensor_x,      \* the tensor x
          tensor_y,      \* y = x**2
          tensor_z,      \* z = y.mean()
          xgrad,         \* x.grad: None, or one rational per entry of x
          wA,            \* the two parameters of the model of "Loss and Autograd together"
          gradA,         \* their .grad, each None or <<g>>
          lossA,         \* the loss tensor of these cells: item, gradient per parameter
          lrA,           \* the learning rate of the optimizer of these cells: 0 before it exists
          log,           \* what these cells have printed
          stepsA,        \* optimizer.step() calls of these cells
          at,            \* script notebooks: the position of the statement to run next
          ns,            \* the kernel's namespace: a value for every defined name
          stdout,        \* the lines printed so far
          trace,         \* the statements run so far, with what they were applied to
          error          \* "none", or the exception that ended the run

ceVars == <<argY, argP, out>>

trainVars == <<pc, nBatches, e, b, w, grad, loss, running_loss, printed, ops,
               fetched, steps, batch_losses>>

agVars == <<cell, tensor_x, tensor_y, tensor_z, xgrad, wA, gradA, lossA, lrA,
            log, stepsA>>

scriptVars == <<at, ns, stdout, trace, error>>

otherVars == <<agVars, scriptVars>>

----------------------------------------------------------------------------
(* Bounds of the model *)

MaxLen == 2

MaxCalls == 2

MaxBatches == 2

----------------------------------------------------------------------------
(* Floating-point values *)

Zero == <<0, 0, 0, 0>>

Fin(v) == [k |-> "fin", v |-> v]

NaN == [k |-> "nan", v |-> Zero]

PInf == [k |-> "inf", v |-> Zero]

NInf == [k |-> "ninf", v |-> Zero]

VAdd(u, v) == [i \in 1..4 |-> u[i] + v[i]]

VScale(c, v) == [i \in 1..4 |-> c * v[i]]

\* x + y in IEEE arithmetic
Add(x, y) ==
    IF x.k = "nan" \/ y.k = "nan" THEN NaN
    ELSE IF x.k = "fin" /\ y.k = "fin" THEN Fin(VAdd(x.v, y.v))
    ELSE IF x.k = "fin" THEN y
    ELSE IF y.k = "fin" THEN x
    ELSE IF x.k = y.k THEN x
    ELSE NaN

\* -x
Neg(x) ==
    CASE x.k = "fin" -> Fin(VScale(-1, x.v))
      [] x.k = "inf" -> NInf
      [] x.k = "ninf" -> PInf
      [] OTHER -> NaN

\* (h/2) * x in IEEE arithmetic, for a logarithm x (whose vector is even)
Mul(h, x) ==
    CASE x.k = "nan" -> NaN
      [] x.k = "fin" -> Fin([i \in 1..4 |-> (h * x.v[i]) \div 2])
      [] OTHER -> IF h = 0 THEN NaN ELSE IF h > 0 THEN x ELSE Neg(x)

RECURSIVE ExpOf(_, _)
\* the exponent of the prime q in n > 0
ExpOf(q, n) == IF n % q = 0 THEN 1 + ExpOf(q, n \div q) ELSE 0

RECURSIVE Pow(_, _)
Pow(q, k) == IF k = 0 THEN 1 ELSE q * Pow(q, k - 1)

\* the exponents of 2, 3, 5, 7 in n > 0
Expo(n) == <<ExpOf(2, n), ExpOf(3, n), ExpOf(5, n), ExpOf(7, n)>>

\* n > 0 has no prime factor beyond 7, so Expo(n) determines it
Smooth(n) ==
    n > 0 /\ n = Pow(2, ExpOf(2, n)) * Pow(3, ExpOf(3, n))
                 * Pow(5, ExpOf(5, n)) * Pow(7, ExpOf(7, n))

\* np.log of the rational r: nan below 0, -inf at 0
np_log(r) ==
    IF r[1] < 0 THEN NaN
    ELSE IF r[1] = 0 THEN NInf
    ELSE Fin(VAdd(VScale(2, Expo(r[1])), VScale(-2, Expo(r[2]))))

\* 1 - r for a rational r
OneMinus(r) == <<r[2] - r[1], r[2]>>

\* np.sum of a sequence of values
RECURSIVE SumFrom(_, _)
SumFrom(s, i) == IF i > Len(s) THEN Fin(Zero) ELSE Add(s[i], SumFrom(s, i + 1))

np_sum(s) == SumFrom(s, 1)

\* the labels converted as np.float_ would: no truncation
np_int_keeps_fraction(L) == [i \in 1..Len(L) |-> L[i]]

\* np.int_ of a list of labels: every entry truncated toward zero
np_int_(L) ==
    [i \in 1..Len(L) |-> IF L[i] >= 0 THEN 2 * (L[i] \div 2) ELSE -(2 * ((-L[i]) \div 2))]

\* np.float_ of a list: every entry as a float64 of the same value
np_float_(L) == [i \in 1..Len(L) |-> L[i]]

\* ln 2, ln 3, ln 5, ln 7 in millionths
LnMicro == <<693147, 1098612, 1609438, 1945910>>

\* a finite value in millionths (each term rounded toward minus infinity)
Micro(x) ==
    (x.v[1] * LnMicro[1] + x.v[2] * LnMicro[2]
       + x.v[3] * LnMicro[3] + x.v[4] * LnMicro[4]) \div 2

\* x >= y for values that are not nan
GE(x, y) ==
    CASE x.k = "inf" \/ y.k = "ninf" -> TRUE
      [] x.k = "ninf" \/ y.k = "inf" -> FALSE
      [] OTHER -> Micro(Add(x, Neg(y))) >= 0

----------------------------------------------------------------------------
(* The cross-entropy notebook *)

\* what a call that ends in numpy's ValueError "operands could not be
\* broadcast together" gives in place of a value
ValueError == [k |-> "ValueError", v |-> Zero]

\* arrays of any two lengths taken as compatible
Broadcastable_unchecked(Y, P) == TRUE

\* numpy can combine two one-dimensional arrays element-wise when their
\* lengths are equal or one of them is 1
Broadcastable(Y, P) == Len(Y) = Len(P) \/ Len(Y) = 1 \/ Len(P) = 1

\* the length of the element-wise combination of two compatible arrays
Shape(Y, P) == IF Len(Y) = 1 THEN Len(P) ELSE Len(Y)

\* the array s as numpy stretches it to the length n
Stretch(s, n) == IF Len(s) = n THEN s ELSE [i \in 1..n |-> s[1]]

\* Y*np.log(P) + (1 - Y)*np.log(1 - P), element-wise
Terms(Y0, P0) ==
    LET Y == Stretch(Y0, Shape(Y0, P0))
        P == Stretch(P0, Shape(Y0, P0))
    IN  [i \in 1..Len(Y) |->
            Add(Mul(Y[i], np_log(P[i])), Mul(2 - Y[i], np_log(OneMinus(P[i]))))]

\* Y*np.log(P), element-wise
TermsNoComplement(Y0, P0) ==
    LET Y == Stretch(Y0, Shape(Y0, P0))
        P == Stretch(P0, Shape(Y0, P0))
    IN  [i \in 1..Len(Y) |-> Mul(Y[i], np_log(P[i]))]

\* the (1 - Y) term left out
cross_entropy_no_complement(Y0, P0) ==
    LET Y == np_int_(Y0)
        P == np_float_(P0)
    IN  [ret |-> IF Broadcastable(Y, P) THEN Neg(np_sum(TermsNoComplement(Y, P)))
                 ELSE ValueError,
         Y |-> Y0, P |-> P0]

\* the leading minus left out
cross_entropy_no_negation(Y0, P0) ==
    LET Y == np_int_(Y0)
        P == np_float_(P0)
    IN  [ret |-> IF Broadcastable(Y, P) THEN np_sum(Terms(Y, P)) ELSE ValueError,
         Y |-> Y0, P |-> P0]

\* the conversion written back into the caller's list (Y[:] = np.int_(Y))
cross_entropy_in_place(Y0, P0) ==
    LET Y == np_int_(Y0)
        P == np_float_(P0)
    IN  [ret |-> IF Broadcastable(Y, P) THEN Neg(np_sum(Terms(Y, P))) ELSE ValueError,
         Y |-> Y, P |-> P0]

\* cross_entropy(Y, P): the value returned, or the ValueError of the
\* element-wise product, and the caller's two lists after the call (the
\* function rebinds its local names and leaves the lists alone)
cross_entropy(Y0, P0) ==
    LET Y == np_int_(Y0)
        P == np_float_(P0)
    IN  [ret |-> IF Broadcastable(Y, P) THEN Neg(np_sum(Terms(Y, P))) ELSE ValueError,
         Y |-> Y0, P |-> P0]

\* the (1 - Y) term left out, as in the multi-class formula
m_cross_entropy_no_complement(Y0, P0) ==
    LET Y == np_float_(Y0)
        P == np_float_(P0)
    IN  [ret |-> IF Broadcastable(Y, P)
                 THEN Neg(np_sum(<<np_sum(TermsNoComplement(Y, P))>>))
                 ELSE ValueError,
         Y |-> Y0, P |-> P0]

\* m_cross_entropy(Y, P): the value returned, or the ValueError, and the
\* caller's lists after
m_cross_entropy(Y0, P0) ==
    LET Y == np_float_(Y0)
        P == np_float_(P0)
    IN  [ret |-> IF Broadcastable(Y, P) THEN Neg(np_sum(<<np_sum(Terms(Y, P))>>))
                 ELSE ValueError,
         Y |-> Y0, P |-> P0]

\* the arguments of the notebook's own calls
Y_cell55 == <<2, 0, 2, 2>>

Y_cell89 == <<2, 0, 4, 2>>

P_cells == <<<<4, 10>>, <<6, 10>>, <<1, 10>>, <<5, 10>>>>

NotebookInputs == {<<Y_cell55, P_cells>>, <<Y_cell89, P_cells>>}

\* labels and probabilities the other calls draw from
YVals == {0, 1, 2}

PVals == {r \in {<<0, 1>>, <<1, 64>>, <<4, 10>>, <<5, 10>>, <<63, 64>>, <<1, 1>>} :
             /\ r[1] > 0 => Smooth(r[1])
             /\ r[2] - r[1] > 0 => Smooth(r[2] - r[1])
             /\ Smooth(r[2])}

GridInputs ==
    UNION {[1..n -> YVals] \X [1..n -> PVals] : n \in 0..MaxLen}

\* arguments of two different lengths
ShapeInputs ==
    UNION {[1..l[1] -> {0, 2}] \X [1..l[2] -> {<<4, 10>>, <<5, 10>>}] :
              l \in {d \in (0..MaxLen) \X (0..(MaxLen + 1)) : d[1] # d[2]}}

\* probabilities below 0 and above 1
RangeInputs ==
    UNION {[1..n -> YVals] \X [1..n -> {<<-1, 4>>, <<4, 10>>, <<5, 4>>}] :
              n \in 1..MaxLen}

Inputs == NotebookInputs \cup GridInputs \cup ShapeInputs \cup RangeInputs

CallCrossEntropy ==
    /\ nb = "ce"
    /\ Len(out) < MaxCalls
    /\ LET r == cross_entropy(argY, argP)
       IN  /\ argY' = r.Y
           /\ argP' = r.P
           /\ out' = Append(out, [fn |-> "cross_entropy", Y |-> argY, P |-> argP,
                                  ret |-> r.ret])
    /\ UNCHANGED <<nb, otherVars, trainVars>>

CallMCrossEntropy ==
    /\ nb = "ce"
    /\ Len(out) < MaxCalls
    /\ LET r == m_cross_entropy(argY, argP)
       IN  /\ argY' = r.Y
           /\ argP' = r.P
           /\ out' = Append(out, [fn |-> "m_cross_entropy", Y |-> argY, P |-> argP,
                                  ret |-> r.ret])
    /\ UNCHANGED <<nb, otherVars, trainVars>>

----------------------------------------------------------------------------
(* The training notebook: the cell "Training for real" *)

epochs == 5

\* lr = 0.003, in thousandths
lr == 3

None == <<>>

NoLoss == [item |-> 0, g |-> 0]

\* what criterion(output, labels) can come to for a batch: the loss value and
\* the gradient of that loss for w
Outcomes == {[item |-> 1, g |-> 0], [item |-> 2, g |-> 1]}

InitWeights == {0, 10}

\* "for e in range(n)" has a next value after i of them
range_through_n(i, n) == i <= n

range_has_next(i, n) == i < n

\* the training pass with backward and step exchanged
TrainingPass_step_first ==
    <<"zero_grad", "forward", "loss", "step", "backward", "accumulate">>

\* the statements of the training pass, in the order of the cell
TrainingPass ==
    <<"zero_grad", "forward", "loss", "backward", "step", "accumulate">>

\* the statement after s: the next one of the pass, or back to the batch loop
After(s) ==
    LET i == CHOOSE j \in 1..Len(TrainingPass) : TrainingPass[j] = s
    IN  IF i = Len(TrainingPass) THEN "batch" ELSE TrainingPass[i + 1]

\* optimizer.zero_grad() left out of the pass: the .grad is kept
zero_grad_left_out(g) == g

\* optimizer.zero_grad() on a .grad
zero_grad(g) == IF g = None THEN None ELSE <<0>>

\* loss.backward() on a .grad: gradients are accumulated
backward(g, dl) == IF g = None THEN <<dl>> ELSE <<g[1] + dl>>

\* the update with the sign of the gradient term wrong
SGD_ascent(p, g, a) == IF g = None THEN p ELSE p + a * g[1]

\* optim.SGD's update of a parameter p with .grad g at learning rate a
\* (in thousandths): W' = W - a * dl/dW; a parameter without a gradient is skipped
SGD(p, g, a) == IF g = None THEN p ELSE p - a * g[1]

\* optimizer.step() on a weight with .grad g
sgd_step(p, g) == SGD(p, g, lr)

\* running_loss = loss.item(): the sum so far overwritten
accumulate_overwrite(sum, item) == item

\* running_loss += loss.item()
accumulate(sum, item) == sum + item

\* for e in range(epochs): running_loss = 0
EpochStart ==
    /\ nb = "train" /\ pc = "epoch"
    /\ IF range_has_next(e, epochs)
       THEN /\ running_loss' = 0
            /\ batch_losses' = <<>>
            /\ b' = 0
            /\ pc' = "batch"
       ELSE /\ pc' = "done"
            /\ UNCHANGED <<running_loss, batch_losses, b>>
    /\ UNCHANGED <<nb, otherVars, ceVars, nBatches, e, w, grad, loss, printed, ops, fetched, steps>>

\* for images, labels in trainloader: images = images.view(...)
NextBatch ==
    /\ nb = "train" /\ pc = "batch"
    /\ IF range_has_next(b, nBatches)
       THEN /\ b' = b + 1
            /\ fetched' = fetched + 1
            /\ ops' = <<>>
            /\ pc' = TrainingPass[1]
       ELSE /\ pc' = "print"
            /\ UNCHANGED <<b, fetched, ops>>
    /\ UNCHANGED <<nb, otherVars, ceVars, batch_losses, nBatches, e, w, grad, loss, running_loss, printed, steps>>

\* optimizer.zero_grad()
ZeroGrad ==
    /\ nb = "train" /\ pc = "zero_grad"
    /\ grad' = zero_grad(grad)
    /\ ops' = Append(ops, "zero_grad")
    /\ pc' = After("zero_grad")
    /\ UNCHANGED <<nb, otherVars, ceVars, batch_losses, nBatches, e, b, w, loss, running_loss, printed, fetched, steps>>

\* output = model.forward(images)
Forward ==
    /\ nb = "train" /\ pc = "forward"
    /\ ops' = Append(ops, "forward")
    /\ pc' = After("forward")
    /\ UNCHANGED <<nb, otherVars, ceVars, batch_losses, nBatches, e, b, w, grad, loss, running_loss, printed,
                   fetched, steps>>

\* loss = criterion(output, labels)
Loss ==
    /\ nb = "train" /\ pc = "loss"
    /\ \E o \in Outcomes : loss' = o
    /\ batch_losses' = Append(batch_losses, loss'.item)
    /\ ops' = Append(ops, "loss")
    /\ pc' = After("loss")
    /\ UNCHANGED <<nb, otherVars, ceVars, nBatches, e, b, w, grad, running_loss, printed, fetched, steps>>

\* loss.backward()
Backward ==
    /\ nb = "train" /\ pc = "backward"
    /\ grad' = backward(grad, loss.g)
    /\ ops' = Append(ops, "backward")
    /\ pc' = After("backward")
    /\ UNCHANGED <<nb, otherVars, ceVars, batch_losses, nBatches, e, b, w, loss, running_loss, printed, fetched, steps>>

\* optimizer.step()
Step ==
    /\ nb = "train" /\ pc = "step"
    /\ w' = sgd_step(w, grad)
    /\ steps' = steps + 1
    /\ ops' = Append(ops, "step")
    /\ pc' = After("step")
    /\ UNCHANGED <<nb, otherVars, ceVars, batch_losses, nBatches, e, b, grad, loss, running_loss, printed, fetched>>

\* running_loss += loss.item()
Accumulate ==
    /\ nb = "train" /\ pc = "accumulate"
    /\ running_loss' = accumulate(running_loss, loss.item)
    /\ ops' = Append(ops, "accumulate")
    /\ pc' = After("accumulate")
    /\ UNCHANGED <<nb, otherVars, ceVars, batch_losses, nBatches, e, b, w, grad, loss, printed, fetched, steps>>

\* else: print(f"Training loss: {running_loss/len(trainloader)}"), then the next e
PrintLoss ==
    /\ nb = "train" /\ pc = "print"
    /\ printed' = Append(printed, <<running_loss, nBatches>>)
    /\ e' = e + 1
    /\ pc' = "epoch"
    /\ UNCHANGED <<nb, otherVars, ceVars, batch_losses, nBatches, b, w, grad, loss, running_loss, ops, fetched, steps>>

----------------------------------------------------------------------------
(* The training notebook: the autograd cells and the single training step *)

\* lr = 0.01, in thousandths
lrWalk == 10

NoLossA == [item |-> 0, g |-> <<0, 0>>]

\* torch.randn(2, 2): the four entries of x, row by row
XVals == {-1, 0, 2}

\* the losses criterion(...) can come to for the two-parameter model: the
\* value, and the gradient for each parameter
OutcomesA == {[item |-> 1, g |-> <<0, 1>>], [item |-> 2, g |-> <<1, -1>>]}

\* a new parameter comes with a zero gradient instead of None
new_grad_zeros == <<0>>

\* the .grad of a tensor or parameter no backward pass has reached
new_grad == None

\* x**2, element-wise
pow2(t) == [i \in 1..Len(t) |-> t[i] * t[i]]

RECURSIVE SumInts(_, _)
SumInts(t, i) == IF i > Len(t) THEN 0 ELSE t[i] + SumInts(t, i + 1)

\* y.mean(): the rational sum / n
mean(t) == <<SumInts(t, 1), Len(t)>>

\* the mean's backward taken as that of a sum: 1 for every entry
mean_backward_as_sum(n) == <<1, 1>>

\* MeanBackward: d mean / d y_i = 1/n
mean_backward(n) == <<1, n>>

\* PowBackward for the exponent 2: d (x_i^2) / d x_i = 2 x_i, times the
\* gradient coming in
pow_backward(xi, up) == <<2 * xi * up[1], up[2]>>

\* z.backward() for z = (x**2).mean(): the gradient for every entry of x
z_backward(t) == [i \in 1..Len(t) |-> pow_backward(t[i], mean_backward(Len(t)))]

\* the sum of two rationals
RatAdd(p, q) == <<p[1] * q[2] + q[1] * p[2], p[2] * q[2]>>

\* a gradient g, one rational per entry, accumulated into the .grad xg
accumulate_grad(xg, g) ==
    IF xg = None THEN g ELSE [i \in 1..Len(g) |-> RatAdd(xg[i], g[i])]

\* x/2, element-wise
half(t) == [i \in 1..Len(t) |-> <<t[i], 2>>]

\* x = torch.randn(2,2, requires_grad=True); print(x)
CellX ==
    /\ nb = "autograd" /\ cell = "x"
    /\ tensor_x' \in [1..4 -> XVals]
    /\ xgrad' = new_grad
    /\ log' = Append(log, [what |-> "x", val |-> tensor_x'])
    /\ cell' = "y"
    /\ UNCHANGED <<nb, ceVars, trainVars, scriptVars, tensor_y, tensor_z, wA, gradA, lossA, lrA, stepsA>>

\* y = x**2; print(y)
CellY ==
    /\ nb = "autograd" /\ cell = "y"
    /\ tensor_y' = pow2(tensor_x)
    /\ log' = Append(log, [what |-> "y", val |-> tensor_y'])
    /\ cell' = "z"
    /\ UNCHANGED <<nb, ceVars, trainVars, scriptVars, tensor_x, tensor_z, xgrad, wA, gradA, lossA, lrA, stepsA>>

\* z = y.mean(); print(z)
CellZ ==
    /\ nb = "autograd" /\ cell = "z"
    /\ tensor_z' = mean(tensor_y)
    /\ log' = Append(log, [what |-> "z", val |-> tensor_z'])
    /\ cell' = "print_xgrad"
    /\ UNCHANGED <<nb, ceVars, trainVars, scriptVars, tensor_x, tensor_y, xgrad, wA, gradA, lossA, lrA, stepsA>>

\* print(x.grad)
CellPrintXGrad ==
    /\ nb = "autograd" /\ cell = "print_xgrad"
    /\ log' = Append(log, [what |-> "x.grad before", val |-> xgrad])
    /\ cell' = "z_backward"
    /\ UNCHANGED <<nb, ceVars, trainVars, scriptVars, tensor_x, tensor_y, tensor_z, xgrad, wA, gradA, lossA, lrA, stepsA>>

\* z.backward(); print(x.grad); print(x/2)
CellZBackward ==
    /\ nb = "autograd" /\ cell = "z_backward"
    /\ xgrad' = accumulate_grad(xgrad, z_backward(tensor_x))
    /\ log' = log \o <<[what |-> "x.grad", val |-> xgrad'],
                       [what |-> "x/2", val |-> half(tensor_x)]>>
    /\ cell' = "model"
    /\ UNCHANGED <<nb, ceVars, trainVars, scriptVars, tensor_x, tensor_y, tensor_z, wA, gradA, lossA, lrA, stepsA>>

\* model = nn.Sequential(...); criterion = nn.NLLLoss(); images, labels = ...;
\* logits = model(images); loss = criterion(logits, labels)
CellModel ==
    /\ nb = "autograd" /\ cell = "model"
    /\ wA' \in [1..2 -> InitWeights]
    /\ gradA' = <<new_grad, new_grad>>
    /\ lossA' \in OutcomesA
    /\ cell' = "loss_backward"
    /\ UNCHANGED <<nb, ceVars, trainVars, scriptVars, tensor_x, tensor_y, tensor_z, xgrad, lrA, log, stepsA>>

\* print('Before backward pass', model[0].weight.grad); loss.backward();
\* print('After backward pass', model[0].weight.grad)
CellLossBackward ==
    /\ nb = "autograd" /\ cell = "loss_backward"
    /\ gradA' = [i \in 1..2 |-> backward(gradA[i], lossA.g[i])]
    /\ log' = log \o <<[what |-> "Before backward pass", val |-> gradA],
                       [what |-> "After backward pass", val |-> gradA']>>
    /\ cell' = "optimizer"
    /\ UNCHANGED <<nb, ceVars, trainVars, scriptVars, tensor_x, tensor_y, tensor_z, xgrad, wA, lossA, lrA, stepsA>>

\* optimizer = optim.SGD(model.parameters(), lr=0.01)
CellOptimizer ==
    /\ nb = "autograd" /\ cell = "optimizer"
    /\ lrA' = lrWalk
    /\ cell' = "zero_grad"
    /\ UNCHANGED <<nb, ceVars, trainVars, scriptVars, tensor_x, tensor_y, tensor_z, xgrad, wA, gradA, lossA, log, stepsA>>

\* print('Initial weights - ', model[0].weight); images, labels = ...;
\* optimizer.zero_grad()
CellZeroGrad ==
    /\ nb = "autograd" /\ cell = "zero_grad"
    /\ log' = Append(log, [what |-> "Initial weights", val |-> wA])
    /\ gradA' = [i \in 1..2 |-> zero_grad(gradA[i])]
    /\ cell' = "forward_loss"
    /\ UNCHANGED <<nb, ceVars, trainVars, scriptVars, tensor_x, tensor_y, tensor_z, xgrad, wA, lossA, lrA, stepsA>>

\* output = model.forward(images); loss = criterion(output, labels)
CellForwardLoss ==
    /\ nb = "autograd" /\ cell = "forward_loss"
    /\ lossA' \in OutcomesA
    /\ cell' = "backward"
    /\ UNCHANGED <<nb, ceVars, trainVars, scriptVars, tensor_x, tensor_y, tensor_z, xgrad, wA, gradA, lrA, log, stepsA>>

\* loss.backward(); print('Gradient -', model[0].weight.grad)
CellBackward ==
    /\ nb = "autograd" /\ cell = "backward"
    /\ gradA' = [i \in 1..2 |-> backward(gradA[i], lossA.g[i])]
    /\ log' = Append(log, [what |-> "Gradient", val |-> gradA'])
    /\ cell' = "step"
    /\ UNCHANGED <<nb, ceVars, trainVars, scriptVars, tensor_x, tensor_y, tensor_z, xgrad, wA, lossA, lrA, stepsA>>

\* optimizer.step(); print('Updated weights - ', model[0].weight)
CellStep ==
    /\ nb = "autograd" /\ cell = "step"
    /\ wA' = [i \in 1..2 |-> SGD(wA[i], gradA[i], lrA)]
    /\ stepsA' = stepsA + 1
    /\ log' = Append(log, [what |-> "Updated weights", val |-> wA'])
    /\ cell' = "end"
    /\ UNCHANGED <<nb, ceVars, trainVars, scriptVars, tensor_x, tensor_y, tensor_z, xgrad, gradA, lossA, lrA>>

\* the existing model re-initialised in place instead of a new one built
model_reinitialised(params) == [i \in 1..Len(params) |-> 0]

\* model = nn.Sequential(...) binds the name to a new object: the parameters
\* of the object the name was bound to stay as they are
model_rebound(params) == params

\* the training cell up to its loop: model = nn.Sequential(...);
\* criterion = nn.NLLLoss(); optimizer = optim.SGD(model.parameters(), lr=0.003);
\* epochs = 5
CellTraining ==
    /\ nb = "autograd" /\ cell = "end"
    /\ nb' = "train"
    /\ cell' = "training"
    /\ wA' = model_rebound(wA)
    /\ pc' = "epoch"
    /\ nBatches' \in 1..MaxBatches
    /\ e' = 0 /\ b' = 0
    /\ w' \in InitWeights
    /\ grad' = new_grad
    /\ loss' = NoLoss /\ running_loss' = 0 /\ printed' = <<>> /\ ops' = <<>>
    /\ fetched' = 0 /\ steps' = 0 /\ batch_losses' = <<>>
    /\ UNCHANGED <<ceVars, scriptVars, tensor_x, tensor_y, tensor_z, xgrad, gradA,
                   lossA, lrA, log, stepsA>>

----------------------------------------------------------------------------
(* The ensembles notebook and the regularization notebook: scripts of
   statements run top to bottom in one kernel *)

\* the most rows a loaded file has
MaxRows == 3

\* the predictor columns of regularizationData.csv
predictors == 6

\* a statement: the operation, the model or class it is about, its two
\* argument names and the name it assigns
S(op, m, arg1, arg2, o) == [op |-> op, m |-> m, a |-> arg1, b |-> arg2, out |-> o]

\* the ensembles notebook with the predictions taken before the models are fit
SpamProgram_predict_first ==
    << S("load", "", "", "", ""),
       S("construct", "MultinomialNB", "", "", "naive_bayes"),
       S("predict", "naive_bayes", "testing_data", "", "predictions"),
       S("fit", "naive_bayes", "training_data", "y_train", "") >>

\* the statements of the ensembles notebook, top to bottom
SpamProgram ==
    << S("load", "", "", "", ""),
       S("construct", "MultinomialNB", "", "", "naive_bayes"),
       S("fit", "naive_bayes", "training_data", "y_train", ""),
       S("predict", "naive_bayes", "testing_data", "", "predictions"),
       S("score", "", "y_test", "predictions", ""),
       S("import_ensemble", "", "", "", ""),
       S("construct", "BaggingClassifier", "", "", "bagging_class"),
       S("construct", "RandomForestClassifier", "", "", "randomForest_class"),
       S("construct", "AdaBoostClassifier", "", "", "adaBoost_class"),
       S("fit", "bagging_class", "training_data", "y_train", ""),
       S("fit", "randomForest_class", "training_data", "y_train", ""),
       S("fit", "adaBoost_class", "training_data", "y_train", ""),
       S("predict", "bagging_class", "testing_data", "", "bagging_pred"),
       S("predict", "randomForest_class", "testing_data", "", "random_pred"),
       S("predict", "adaBoost_class", "testing_data", "", "ada_pred"),
       S("def", "", "", "", "print_metrics"),
       S("print_metrics", "bagging", "y_test", "bagging_pred", ""),
       S("print_metrics", "Random Forest", "y_test", "random_pred", ""),
       S("print_metrics", "AdaBoost", "y_test", "ada_pred", ""),
       S("print_metrics", "Naive Bayes", "y_test", "predictions", "") >>

\* the statements of the regularization notebook, top to bottom
LassoProgram ==
    << S("import", "", "", "", ""),
       S("read_csv", "", "", "", ""),
       S("construct", "Lasso", "", "", "lasso_reg"),
       S("fit", "lasso_reg", "X", "y", ""),
       S("coef_", "lasso_reg", "", "", "reg_coef") >>

Program == IF nb = "spam" THEN SpamProgram ELSE LassoProgram

\* the statement the kernel runs next
Stmt == Program[at]

Running == nb \in {"spam", "lasso"} /\ error = "none" /\ at \in 1..Len(Program)

Defined(names) == names \subseteq DOMAIN ns

\* the namespace with the names of d bound to their values in d
Bind(n, d) ==
    [k \in DOMAIN n \cup DOMAIN d |-> IF k \in DOMAIN d THEN d[k] ELSE n[k]]

\* the namespace with every name of the set bound to an imported object
Import(n, names) == Bind(n, [k \in names |-> "imported"])

\* an exception ends the run: nothing is assigned and nothing more runs
Raise(exc) ==
    /\ error' = exc
    /\ UNCHANGED <<at, ns, stdout, trace>>

\* what the run has done: the statement and the values it was applied to
Did(st, X, ret) ==
    Append(trace, [op |-> st.op, m |-> st.m, arg |-> st.a, X |-> X, ret |-> ret])

\* the rows a line of SMSSpamCollection can hold
SmsRows ==
    { [label |-> "ham", sms_message |-> <<"hi", "free">>],
      [label |-> "spam", sms_message |-> <<"free", "win", "free">>] }

\* df.label.map({'ham':0, 'spam':1})
label_map(df) ==
    [i \in 1..Len(df) |->
        [label |-> IF df[i].label = "ham" THEN 0 ELSE 1,
         sms_message |-> df[i].sms_message]]

\* the rows of t at the positions of the set K, in the order of t
RECURSIVE Rows(_, _, _)
Rows(t, i, K) ==
    IF i > Len(t) THEN <<>>
    ELSE (IF i \in K THEN <<t[i]>> ELSE <<>>) \o Rows(t, i + 1, K)

\* the sizes of the test part train_test_split makes of n rows: a quarter,
\* rounded up
n_test(n) == (n + 3) \div 4

\* train_test_split(X, y, random_state=1) with the rows of T as the test part
train_test_split(X, y, T) ==
    [X_train |-> Rows(X, 1, (1..Len(X)) \ T),
     X_test  |-> Rows(X, 1, T),
     y_train |-> Rows(y, 1, (1..Len(X)) \ T),
     y_test  |-> Rows(y, 1, T)]

\* the words of a sequence of messages
Words(X) == UNION {{X[i][j] : j \in 1..Len(X[i])} : i \in 1..Len(X)}

\* CountVectorizer.transform: for every message, the count of each word of
\* the vocabulary
transform(vocabulary, X) ==
    [i \in 1..Len(X) |->
        [word \in vocabulary |->
            Cardinality({j \in 1..Len(X[i]) : X[i][j] = word})]]

\* the estimators the namespace holds
Estimators(n) ==
    {k \in DOMAIN n : k \in {"naive_bayes", "bagging_class", "randomForest_class",
                             "adaBoost_class", "lasso_reg"}}

\* a new, unfitted estimator of a class
estimator(class) == [kind |-> class, fitted |-> <<>>, coef_ |-> <<>>]

\* a fit that writes into every estimator of the kernel
fit_shared_state(n, m, X, y, c) ==
    [k \in DOMAIN n |->
        IF k \in Estimators(n)
        THEN [kind |-> n[k].kind, fitted |-> <<[X |-> X, y |-> y]>>, coef_ |-> c]
        ELSE n[k]]

\* m.fit(X, y): the estimator bound to m keeps what it learned from X and y,
\* c being its coefficients
fit(n, m, X, y, c) ==
    [n EXCEPT ![m] = [kind |-> @.kind, fitted |-> <<[X |-> X, y |-> y]>>, coef_ |-> c]]

\* the values a Lasso coefficient can come to
CoefVals == {0, 2}

\* the coefficient vectors a fit of an estimator of this kind on X can end with
Coefs(kind, X) ==
    IF kind = "Lasso" THEN [1..Len(X[1]) -> CoefVals] ELSE {<<>>}

TP(y_true, preds) == Cardinality({i \in 1..Len(preds) : preds[i] = 1 /\ y_true[i] = 1})
FP(y_true, preds) == Cardinality({i \in 1..Len(preds) : preds[i] = 1 /\ y_true[i] = 0})
FN(y_true, preds) == Cardinality({i \in 1..Len(preds) : preds[i] = 0 /\ y_true[i] = 1})

\* the rational n/d, and 0 where sklearn divides by zero
Ratio(n, d) == IF d = 0 THEN <<0, 1>> ELSE <<n, d>>

accuracy_score(y_true, preds) ==
    <<Cardinality({i \in 1..Len(preds) : preds[i] = y_true[i]}), Len(preds)>>

precision_score(y_true, preds) ==
    Ratio(TP(y_true, preds), TP(y_true, preds) + FP(y_true, preds))

recall_score(y_true, preds) ==
    Ratio(TP(y_true, preds), TP(y_true, preds) + FN(y_true, preds))

f1_score(y_true, preds) ==
    Ratio(2 * TP(y_true, preds),
          2 * TP(y_true, preds) + FP(y_true, preds) + FN(y_true, preds))

\* model_name=None
NoName == ""

\* a printed line: the metric its text names, the model name in the text, the value
Line(metric, name, val) == [metric |-> metric, name |-> name, val |-> val]

\* print('\n\n')
Blank == Line("", "", <<0, 1>>)

\* print_metrics printing the precision first
print_metrics_precision_first(y_true, preds, model_name) ==
    << Line("Precision", model_name, precision_score(y_true, preds)),
       Line("Accuracy", model_name, accuracy_score(y_true, preds)),
       Line("Recall", model_name, recall_score(y_true, preds)),
       Line("F1", model_name, f1_score(y_true, preds)),
       Blank >>

\* print_metrics(y_true, preds, model_name): the lines it prints; both of its
\* branches print the same four scores, with or without the name
print_metrics(y_true, preds, model_name) ==
    IF model_name = NoName
    THEN << Line("Accuracy", NoName, accuracy_score(y_true, preds)),
            Line("Precision", NoName, precision_score(y_true, preds)),
            Line("Recall", NoName, recall_score(y_true, preds)),
            Line("F1", NoName, f1_score(y_true, preds)),
            Blank >>
    ELSE << Line("Accuracy", model_name, accuracy_score(y_true, preds)),
            Line("Precision", model_name, precision_score(y_true, preds)),
            Line("Recall", model_name, recall_score(y_true, preds)),
            Line("F1", model_name, f1_score(y_true, preds)),
            Blank >>

\* the slice taking every column
iloc_all_columns(t) == t

\* train_data.iloc[:, :-1]: every row without its last column
iloc_but_last(t) == [k \in 1..Len(t) |-> SubSeq(t[k], 1, Len(t[k]) - 1)]

\* train_data.iloc[:, -1]: the last column
iloc_last(t) == [k \in 1..Len(t) |-> t[k][Len(t[k])]]

\* the rows a line of regularizationData.csv can hold: the predictors and the outcome
CsvRows ==
    { [c \in 1..(predictors + 1) |-> c],
      [c \in 1..(predictors + 1) |-> 10 - c],
      [c \in 1..(predictors + 1) |-> IF c > predictors THEN 1 ELSE 0] }

\* the sequences of 1 to n rows of the set
Tables(rows, n) == UNION {[1..k -> rows] : k \in 1..n}

\* the imports; df = pd.read_table(...); df['label'] = df.label.map(...);
\* train_test_split; count_vector = CountVectorizer();
\* training_data = count_vector.fit_transform(X_train);
\* testing_data = count_vector.transform(X_test)
SpamLoad ==
    /\ Running /\ Stmt.op = "load"
    /\ \E file \in UNION {[1..k -> SmsRows] : k \in 2..MaxRows} :
       \E T \in {t \in SUBSET (1..Len(file)) : Cardinality(t) = n_test(Len(file))} :
          LET df == label_map(file)
              split == train_test_split([i \in 1..Len(df) |-> df[i].sms_message],
                                        [i \in 1..Len(df) |-> df[i].label], T)
              vocabulary == Words(split.X_train)
          IN  ns' = Bind(Import(ns, {"pd", "train_test_split", "CountVectorizer",
                                     "MultinomialNB", "accuracy_score",
                                     "precision_score", "recall_score", "f1_score"}),
                         [k \in {"df", "X_train", "X_test", "y_train", "y_test",
                                 "count_vector", "training_data", "testing_data"} |->
                            CASE k = "df" -> df
                              [] k = "X_train" -> split.X_train
                              [] k = "X_test" -> split.X_test
                              [] k = "y_train" -> split.y_train
                              [] k = "y_test" -> split.y_test
                              [] k = "count_vector" -> [vocabulary_ |-> vocabulary]
                              [] k = "training_data" -> transform(vocabulary, split.X_train)
                              [] k = "testing_data" -> transform(vocabulary, split.X_test)])
    /\ trace' = Did(Stmt, <<>>, <<>>)
    /\ at' = at + 1
    /\ UNCHANGED <<nb, ceVars, trainVars, agVars, stdout, error>>

\* naive_bayes = MultinomialNB(); bagging_class = BaggingClassifier(...);
\* randomForest_class = RandomForestClassifier(...);
\* adaBoost_class = AdaBoostClassifier(...); lasso_reg = linear_model.Lasso()
Construct ==
    /\ Running /\ Stmt.op = "construct"
    /\ IF Defined({IF Stmt.m = "Lasso" THEN "linear_model" ELSE Stmt.m})
       THEN /\ ns' = Bind(ns, [k \in {Stmt.out} |-> estimator(Stmt.m)])
            /\ trace' = Did([Stmt EXCEPT !.m = Stmt.out], <<>>, <<>>)
            /\ at' = at + 1
            /\ UNCHANGED <<stdout, error>>
       ELSE Raise("NameError")
    /\ UNCHANGED <<nb, ceVars, trainVars, agVars>>

\* naive_bayes.fit(training_data, y_train); bagging_class.fit(...);
\* randomForest_class.fit(...); adaBoost_class.fit(...); lasso_reg.fit(X, y)
FitStmt ==
    /\ Running /\ Stmt.op = "fit"
    /\ IF Defined({Stmt.m, Stmt.a, Stmt.b})
       THEN /\ \E c \in Coefs(ns[Stmt.m].kind, ns[Stmt.a]) :
                  ns' = fit(ns, Stmt.m, ns[Stmt.a], ns[Stmt.b], c)
            /\ trace' = Did(Stmt, ns[Stmt.a], <<>>)
            /\ at' = at + 1
            /\ UNCHANGED <<stdout, error>>
       ELSE Raise("NameError")
    /\ UNCHANGED <<nb, ceVars, trainVars, agVars>>

\* predictions = naive_bayes.predict(testing_data);
\* bagging_pred = bagging_class.predict(testing_data); random_pred = ...;
\* ada_pred = ...
PredictStmt ==
    /\ Running /\ Stmt.op = "predict"
    /\ IF ~Defined({Stmt.m, Stmt.a}) THEN Raise("NameError")
       ELSE IF ns[Stmt.m].fitted = <<>> THEN Raise("NotFittedError")
       ELSE /\ \E preds \in [1..Len(ns[Stmt.a]) -> {0, 1}] :
                  /\ ns' = Bind(ns, [k \in {Stmt.out} |-> preds])
                  /\ trace' = Did(Stmt, ns[Stmt.a], preds)
            /\ at' = at + 1
            /\ UNCHANGED <<stdout, error>>
    /\ UNCHANGED <<nb, ceVars, trainVars, agVars>>

\* print('Accuracy score: ', format(accuracy_score(y_test, predictions))) and
\* the same for the precision, the recall and the F1 score
SpamScore ==
    /\ Running /\ Stmt.op = "score"
    /\ IF Defined({Stmt.a, Stmt.b, "accuracy_score", "precision_score",
                   "recall_score", "f1_score"})
       THEN /\ stdout' = stdout \o
                  << Line("Accuracy", NoName, accuracy_score(ns[Stmt.a], ns[Stmt.b])),
                     Line("Precision", NoName, precision_score(ns[Stmt.a], ns[Stmt.b])),
                     Line("Recall", NoName, recall_score(ns[Stmt.a], ns[Stmt.b])),
                     Line("F1", NoName, f1_score(ns[Stmt.a], ns[Stmt.b])) >>
            /\ trace' = Did([Stmt EXCEPT !.m = "naive_bayes"], ns[Stmt.a], ns[Stmt.b])
            /\ at' = at + 1
            /\ UNCHANGED <<ns, error>>
       ELSE Raise("NameError")
    /\ UNCHANGED <<nb, ceVars, trainVars, agVars>>

\* from sklearn.ensemble import BaggingClassifier, RandomForestClassifier,
\* AdaBoostClassifier
ImportEnsemble ==
    /\ Running /\ Stmt.op = "import_ensemble"
    /\ ns' = Import(ns, {"BaggingClassifier", "RandomForestClassifier",
                         "AdaBoostClassifier"})
    /\ trace' = Did(Stmt, <<>>, <<>>)
    /\ at' = at + 1
    /\ UNCHANGED <<nb, ceVars, trainVars, agVars, stdout, error>>

\* def print_metrics(y_true, preds, model_name=None): ...
DefPrintMetrics ==
    /\ Running /\ Stmt.op = "def"
    /\ ns' = Bind(ns, [k \in {Stmt.out} |-> "function"])
    /\ trace' = Did(Stmt, <<>>, <<>>)
    /\ at' = at + 1
    /\ UNCHANGED <<nb, ceVars, trainVars, agVars, stdout, error>>

\* print_metrics(y_test, bagging_pred, "bagging") and the calls for
\* "Random Forest", "AdaBoost" and "Naive Bayes"
PrintMetricsCall ==
    /\ Running /\ Stmt.op = "print_metrics"
    /\ IF Defined({"print_metrics", Stmt.a, Stmt.b, "accuracy_score",
                   "precision_score", "recall_score", "f1_score"})
       THEN /\ stdout' = stdout \o print_metrics(ns[Stmt.a], ns[Stmt.b], Stmt.m)
            /\ trace' = Did(Stmt, ns[Stmt.a], ns[Stmt.b])
            /\ at' = at + 1
            /\ UNCHANGED <<ns, error>>
       ELSE Raise("NameError")
    /\ UNCHANGED <<nb, ceVars, trainVars, agVars>>

\* import pandas as pd; import numpy as np; from sklearn import linear_model
LassoImport ==
    /\ Running /\ Stmt.op = "import"
    /\ ns' = Import(ns, {"pd", "np", "linear_model"})
    /\ trace' = Did(Stmt, <<>>, <<>>)
    /\ at' = at + 1
    /\ UNCHANGED <<nb, ceVars, trainVars, agVars, stdout, error>>

\* train_data = pd.read_csv(..., header=None); X = train_data.iloc[:, :-1];
\* y = train_data.iloc[:, -1]
LassoLoad ==
    /\ Running /\ Stmt.op = "read_csv"
    /\ IF Defined({"pd"})
       THEN /\ \E file \in Tables(CsvRows, MaxRows) :
                  ns' = Bind(ns, [k \in {"train_data", "X", "y"} |->
                                    CASE k = "train_data" -> file
                                      [] k = "X" -> iloc_but_last(file)
                                      [] k = "y" -> iloc_last(file)])
            /\ trace' = Did(Stmt, <<>>, <<>>)
            /\ at' = at + 1
            /\ UNCHANGED <<stdout, error>>
       ELSE Raise("NameError")
    /\ UNCHANGED <<nb, ceVars, trainVars, agVars>>

\* reg_coef = lasso_reg.coef_; reg_coef
LassoCoef ==
    /\ Running /\ Stmt.op = "coef_"
    /\ IF ~Defined({Stmt.m}) THEN Raise("NameError")
       ELSE IF ns[Stmt.m].fitted = <<>> THEN Raise("AttributeError")
       ELSE /\ ns' = Bind(ns, [k \in {Stmt.out} |-> ns[Stmt.m].coef_])
            /\ stdout' = Append(stdout, Line("reg_coef", NoName, ns[Stmt.m].coef_))
            /\ trace' = Did(Stmt, <<>>, ns[Stmt.m].coef_)
            /\ at' = at + 1
            /\ UNCHANGED error
    /\ UNCHANGED <<nb, ceVars, trainVars, agVars>>

----------------------------------------------------------------------------

vars == <<nb, argY, argP, out, pc, nBatches, e, b, w, grad, loss, running_loss,
          printed, ops, fetched, steps, batch_losses, otherVars>>

\* the kernel before any autograd cell has run
AgOff ==
    /\ cell = "off" /\ tensor_x = <<>> /\ tensor_y = <<>> /\ tensor_z = <<>> /\ xgrad = None
    /\ wA = <<>> /\ gradA = <<>> /\ lossA = NoLossA /\ lrA = 0 /\ log = <<>>
    /\ stepsA = 0

\* the kernel before any statement of a script notebook has run
ScriptOff ==
    /\ at = 0 /\ ns = <<>> /\ stdout = <<>> /\ trace = <<>> /\ error = "none"

OtherOff == AgOff /\ ScriptOff

CEOff == argY = <<>> /\ argP = <<>> /\ out = <<>>

TrainOff ==
    /\ pc = "off" /\ nBatches = 0 /\ e = 0 /\ b = 0 /\ w = 0 /\ grad = None
    /\ loss = NoLoss /\ running_loss = 0 /\ printed = <<>> /\ ops = <<>>
    /\ fetched = 0 /\ steps = 0 /\ batch_losses = <<>>

CEInit ==
    /\ nb = "ce"
    /\ \E in \in Inputs : argY = in[1] /\ argP = in[2]
    /\ out = <<>>
    /\ TrainOff
    /\ OtherOff

\* model, criterion and optimizer are built anew; epochs = 5; e starts range(epochs)
TrainInit ==
    /\ nb = "train"
    /\ argY = <<>> /\ argP = <<>> /\ out = <<>>
    /\ pc = "epoch"
    /\ nBatches \in 1..MaxBatches
    /\ e = 0 /\ b = 0
    /\ w \in InitWeights
    /\ grad = None
    /\ loss = NoLoss /\ running_loss = 0 /\ printed = <<>> /\ ops = <<>>
    /\ fetched = 0 /\ steps = 0 /\ batch_losses = <<>>
    /\ OtherOff

\* the training notebook from its first autograd cell
AgInit ==
    /\ nb = "autograd"
    /\ CEOff /\ TrainOff
    /\ cell = "x" /\ tensor_x = <<>> /\ tensor_y = <<>> /\ tensor_z = <<>> /\ xgrad = None
    /\ wA = <<>> /\ gradA = <<>> /\ lossA = NoLossA /\ lrA = 0 /\ log = <<>>
    /\ stepsA = 0
    /\ ScriptOff

\* a fresh kernel for the ensembles notebook or the regularization notebook
ScriptInit ==
    /\ nb \in {"spam", "lasso"}
    /\ CEOff /\ TrainOff /\ AgOff
    /\ at = 1 /\ ns = <<>> /\ stdout = <<>> /\ trace = <<>> /\ error = "none"

Init == CEInit \/ TrainInit \/ AgInit \/ ScriptInit

TrainNext ==
    \/ EpochStart
    \/ NextBatch
    \/ ZeroGrad
    \/ Forward
    \/ Loss
    \/ Backward
    \/ Step
    \/ Accumulate
    \/ PrintLoss

AgNext ==
    \/ CellX
    \/ CellY
    \/ CellZ
    \/ CellPrintXGrad
    \/ CellZBackward
    \/ CellModel
    \/ CellLossBackward
    \/ CellOptimizer
    \/ CellZeroGrad
    \/ CellForwardLoss
    \/ CellBackward
    \/ CellStep

ScriptNext ==
    \/ SpamLoad
    \/ Construct
    \/ FitStmt
    \/ PredictStmt
    \/ SpamScore
    \/ ImportEnsemble
    \/ DefPrintMetrics
    \/ PrintMetricsCall
    \/ LassoImport
    \/ LassoLoad
    \/ LassoCoef

Next ==
    \/ CallCrossEntropy
    \/ CallMCrossEntropy
    \/ TrainNext
    \/ AgNext
    \/ ScriptNext

Spec == Init /\ [][Next]_vars

\* the cell runs to its end: the kernel keeps executing the next statement
TrainSpec == TrainInit /\ [][TrainNext]_vars /\ WF_vars(TrainNext)

\* the entries of x in the run of the whole training notebook
x_walk == <<-1, 0, 2, 2>>

\* the training notebook after its cells on x, y and z, before the model of
\* "Loss and Autograd together" is built
NotebookInit ==
    /\ nb = "autograd"
    /\ CEOff /\ TrainOff /\ ScriptOff
    /\ cell = "model"
    /\ tensor_x = x_walk
    /\ tensor_y = pow2(x_walk)
    /\ tensor_z = mean(pow2(x_walk))
    /\ xgrad = accumulate_grad(new_grad, z_backward(x_walk))
    /\ wA = <<>> /\ gradA = <<>> /\ lossA = NoLossA /\ lrA = 0 /\ stepsA = 0
    /\ log = << [what |-> "x", val |-> x_walk],
                [what |-> "y", val |-> pow2(x_walk)],
                [what |-> "z", val |-> mean(pow2(x_walk))],
                [what |-> "x.grad before", val |-> new_grad],
                [what |-> "x.grad", val |-> accumulate_grad(new_grad, z_backward(x_walk))],
                [what |-> "x/2", val |-> half(x_walk)] >>

\* the cells from the model of "Loss and Autograd together" to the end of
\* the training cell
NotebookNext ==
    \/ CellModel
    \/ CellLossBackward
    \/ CellOptimizer
    \/ CellZeroGrad
    \/ CellForwardLoss
    \/ CellBackward
    \/ CellStep
    \/ CellTraining
    \/ TrainNext

\* the training notebook run top to bottom, from the first model to the
\* end of the training loop
NotebookSpec == NotebookInit /\ [][NotebookNext]_vars

----------------------------------------------------------------------------
(* The formulas the notebook's markdown gives *)

\* a label truncated toward zero to a whole number
Trunc(h) == IF h >= 0 THEN h - (h % 2) ELSE -((-h) - ((-h) % 2))

RECURSIVE BinarySum(_, _, _)
\* sum over i of y_i*ln(p_i) + (1 - y_i)*ln(1 - p_i), from position i on
BinarySum(Y, P, i) ==
    IF i > Len(Y) THEN Fin(Zero)
    ELSE Add(Add(Mul(Y[i], np_log(P[i])), Mul(2 - Y[i], np_log(OneMinus(P[i])))),
             BinarySum(Y, P, i + 1))

\* Cross-Entropy = - sum_i ( y_i ln(p_i) + (1 - y_i) ln(1 - p_i) )
BinaryFormula(Y, P) == Neg(BinarySum(Y, P, 1))

RECURSIVE MultiSum(_, _, _)
\* sum of y*ln(p) from position i on
MultiSum(Y, P, i) ==
    IF i > Len(Y) THEN Fin(Zero)
    ELSE Add(Mul(Y[i], np_log(P[i])), MultiSum(Y, P, i + 1))

\* Cross-Entropy = - sum_i sum_j y_ij ln(p_ij)
MultiClassFormula(Y, P) == Neg(MultiSum(Y, P, 1))

----------------------------------------------------------------------------
(* Properties *)

\* the calls with a Y and a P of the same length
Calls == {i \in 1..Len(out) : Len(out[i].Y) = Len(out[i].P)}

CallsOf(f) == {i \in Calls : out[i].fn = f}

\* every label is 0 or 1
Binary(Y) == \A k \in 1..Len(Y) : Y[k] \in {0, 2}

\* the rational r lies strictly between 0 and 1
Interior(r) == 0 < r[1] /\ r[1] < r[2]

\* the label h (in halves) and the rational r are the same number
SameNumber(h, r) == h * r[2] = 2 * r[1]

\* C1: cross_entropy([1, 0, 1, 1], [0.4, 0.6, 0.1, 0.5]) returns 4.828313737...:
\* a finite value within a millionth of 4.828314.
C1_Cell55Value ==
    \A i \in CallsOf("cross_entropy") :
        (out[i].Y = Y_cell55 /\ out[i].P = P_cells)
            => /\ out[i].ret.k = "fin"
               /\ Micro(out[i].ret) \in 4828313..4828315

C1_Witness ==
    \E i \in CallsOf("cross_entropy") :
        out[i].Y = Y_cell55 /\ out[i].P = P_cells /\ out[i].ret.k = "fin"

\* C2: when every label of Y is 0 or 1, m_cross_entropy(Y, P) returns the same
\* value as cross_entropy(Y, P).
C2_MultiEqualsBinary ==
    \A i \in CallsOf("cross_entropy"), j \in CallsOf("m_cross_entropy") :
        (out[i].Y = out[j].Y /\ out[i].P = out[j].P /\ Binary(out[i].Y))
            => out[i].ret = out[j].ret

C2_Witness ==
    \E i \in CallsOf("cross_entropy"), j \in CallsOf("m_cross_entropy") :
        /\ out[i].Y = Y_cell55 /\ out[j].Y = Y_cell55
        /\ out[i].P = P_cells /\ out[j].P = P_cells
        /\ out[j].ret.k = "fin" /\ out[j].ret # Fin(Zero)

C4_Diverges ==
    \A i \in CallsOf("cross_entropy") :
        LET Y == out[i].Y
            P == out[i].P
        IN  \A k \in 1..Len(Y) :
                (/\ Binary(Y)
                 /\ \A j \in 1..Len(P) : j # k => Interior(P[j])
                 /\ 0 <= P[k][1] /\ P[k][1] <= P[k][2]
                 /\ Y[k] = 2 => P[k][1] < P[k][2]
                 /\ Y[k] = 0 => 0 < P[k][1])
                    => /\ out[i].ret.k # "nan"
                       /\ Y[k] = 2 => GE(out[i].ret, Neg(np_log(P[k])))
                       /\ Y[k] = 0 => GE(out[i].ret, Neg(np_log(OneMinus(P[k]))))

C4_Witness ==
    \E i \in CallsOf("cross_entropy") :
        /\ Len(out[i].Y) = 2 /\ out[i].Y[1] = 2 /\ out[i].Y[2] = 0
        /\ out[i].P[1] = <<1, 64>> /\ out[i].P[2] = <<63, 64>>
        /\ out[i].ret.k = "fin" /\ Micro(out[i].ret) >= 2 * 6 * LnMicro[1]

\* C5: cross_entropy(Y, P) with Y equal to P element-wise is not zero (for
\* non-empty lists), so zero-at-equality is not a property of the function.
C5_NotZeroAtEquality ==
    \A i \in CallsOf("cross_entropy") :
        (/\ Len(out[i].Y) > 0
         /\ \A k \in 1..Len(out[i].Y) : SameNumber(out[i].Y[k], out[i].P[k]))
            => out[i].ret # Fin(Zero)

C5_Witness ==
    \E i \in CallsOf("cross_entropy") :
        /\ Len(out[i].Y) = 2
        /\ \A k \in 1..2 : out[i].Y[k] = 1 /\ out[i].P[k] = <<5, 10>>
        /\ out[i].ret.k = "fin" /\ Micro(out[i].ret) > 0

C7_MultiClassFormula ==
    \A i \in CallsOf("m_cross_entropy") :
        out[i].ret = MultiClassFormula(out[i].Y, out[i].P)

\* C8: a call of cross_entropy or m_cross_entropy leaves the caller's Y and P
\* and all other state as they were, and calls of the same function with the
\* same Y and P have returned the same value.
C8_Pure ==
    [][out' # out =>
          /\ argY' = argY /\ argP' = argP
          /\ UNCHANGED <<nb, otherVars, trainVars>>
          /\ \A i, j \in 1..Len(out') :
                (out'[i].fn = out'[j].fn /\ out'[i].Y = out'[j].Y
                   /\ out'[i].P = out'[j].P) => out'[i].ret = out'[j].ret]_vars

C8_Witness ==
    /\ Len(out) = 2
    /\ out[1].fn = "cross_entropy" /\ out[2].fn = "cross_entropy"
    /\ \E k \in 1..Len(argY) : argY[k] = 1
    /\ out[1].Y = argY /\ out[2].Y = argY /\ out[1].ret = out[2].ret

\* the entries of s that are among forward, loss, backward, step
RECURSIVE Core(_)
Core(s) ==
    IF s = <<>> THEN <<>>
    ELSE IF Head(s) \in {"forward", "loss", "backward", "step"}
         THEN <<Head(s)>> \o Core(Tail(s))
         ELSE Core(Tail(s))

\* C9: for every batch the pass runs forward, loss, backward, step in that
\* order; optimizer.step() comes directly after the backward pass of the same
\* batch; and while a batch is in its pass every earlier batch has had its
\* one optimizer step.
C9_PassOrder ==
    nb = "train" =>
        /\ Core(ops) = SubSeq(<<"forward", "loss", "backward", "step">>, 1, Len(Core(ops)))
        /\ \A i \in 1..Len(ops) :
              ops[i] = "step" => (i > 1 /\ ops[i - 1] = "backward")
        /\ steps = IF \E i \in 1..Len(ops) : ops[i] = "step"
                   THEN fetched
                   ELSE IF fetched = 0 THEN 0 ELSE fetched - 1

C9_Witness ==
    /\ nb = "train" /\ e = 1 /\ b = 2 /\ pc = "accumulate"
    /\ Core(ops) = <<"forward", "loss", "backward", "step">>
    /\ steps = nBatches + 2

\* C10: with epochs = 5 and a trainloader of B batches the loop comes to its
\* end, having made exactly 5*B optimizer steps, one per batch drawn, and
\* stays there.
C10_Terminates ==
    <>[](pc = "done" /\ steps = 5 * nBatches /\ fetched = 5 * nBatches)

C10_Witness ==
    pc = "done" /\ nBatches = 2 /\ steps = 10 /\ Len(printed) = 5

\* the position of the first s in the sequence q, or 0
FirstAt(q, s) ==
    IF \E i \in 1..Len(q) : q[i] = s
    THEN CHOOSE i \in 1..Len(q) : q[i] = s /\ \A j \in 1..(i - 1) : q[j] # s
    ELSE 0

\* C11: in every training pass optimizer.zero_grad() has run before the
\* backward pass, and from the backward pass to the end of the pass (so at
\* optimizer.step()) the stored gradient is the gradient of the current
\* batch's loss alone, with nothing kept from an earlier batch.
C11_GradOfCurrentBatch ==
    (nb = "train" /\ FirstAt(ops, "backward") > 0) =>
        /\ 0 < FirstAt(ops, "zero_grad")
        /\ FirstAt(ops, "zero_grad") < FirstAt(ops, "backward")
        /\ grad = <<loss.g>>

C11_Witness ==
    /\ nb = "train" /\ pc = "step" /\ fetched >= 2
    /\ w \notin InitWeights
    /\ loss.g = 1 /\ grad = <<1>>


\* the autograd cells have printed an output under this heading
Printed(what) == \E i \in 1..Len(log) : log[i].what = what

\* the outputs printed under a heading
PrintedVals(what) == {log[i].val : i \in {j \in 1..Len(log) : log[j].what = what}}

\* two rationals are the same number
RatEq(p, q) == p[1] * q[2] = q[1] * p[2]

\* C13: optimizer.step() replaces every parameter W by W - lr * dl/dW, with
\* the learning rate the optimizer was built with and the gradient stored on
\* the parameter; a parameter whose gradient is zero keeps its value, and the
\* step leaves the stored gradients as they were.
C13_StepRule ==
    [][ /\ (steps' # steps) =>
              /\ grad' = grad
              /\ grad # None
              /\ w' = w - lr * grad[1]
              /\ (grad = <<0>> => w' = w)
        /\ (stepsA' # stepsA) =>
              /\ gradA' = gradA
              /\ \A i \in 1..2 :
                    /\ gradA[i] # None
                    /\ wA'[i] = wA[i] - lrWalk * gradA[i][1]
                    /\ (gradA[i] = <<0>> => wA'[i] = wA[i]) ]_vars

C13_Witness ==
    /\ nb = "autograd" /\ stepsA = 1
    /\ gradA = <<<<0>>, <<1>>>>
    /\ \E before \in PrintedVals("Initial weights") :
          /\ wA[1] = before[1]
          /\ wA[2] = before[2] - lrWalk

\* C14: the .grad of a tensor or parameter is None until the first backward
\* pass that reaches it and holds a gradient afterwards: x.grad is None
\* exactly until z.backward() has run, model[0].weight.grad exactly until
\* loss.backward() has run, and the cells print None before and a gradient
\* after.
C14_NoneUntilBackward ==
    nb = "autograd" =>
        /\ tensor_x # <<>> => (xgrad = None <=> ~Printed("x.grad"))
        /\ wA # <<>> =>
              \A i \in 1..2 : gradA[i] = None <=> ~Printed("After backward pass")
        /\ PrintedVals("x.grad before") \subseteq {None}
        /\ PrintedVals("Before backward pass") \subseteq {<<None, None>>}
        /\ \A v \in PrintedVals("x.grad") : v # None
        /\ \A v \in PrintedVals("After backward pass") :
              \A i \in 1..2 : v[i] # None

C14_Witness ==
    /\ nb = "autograd"
    /\ Printed("x.grad before") /\ Printed("x.grad")
    /\ Printed("Before backward pass") /\ Printed("After backward pass")
    /\ xgrad # None /\ gradA[1] # None /\ gradA[2] # None

\* C15: for the 2x2 tensor x with y = x**2 and z = y.mean(), after
\* z.backward() the gradient x.grad equals x/2 entry by entry, and the two
\* tensors the cell prints are equal.
C15_GradIsHalfX ==
    (nb = "autograd" /\ Printed("x.grad")) =>
        /\ \A k \in 1..4 : RatEq(xgrad[k], <<tensor_x[k], 2>>)
        /\ \A g \in PrintedVals("x.grad") : \A h \in PrintedVals("x/2") :
              \A k \in 1..4 : RatEq(g[k], h[k])

C15_Witness ==
    /\ nb = "autograd" /\ Printed("x.grad") /\ Printed("x/2")
    /\ tensor_x = <<-1, 0, 2, 2>>
    /\ tensor_y = <<1, 0, 4, 4>> /\ tensor_z = <<9, 4>>
    /\ xgrad = <<<<-2, 4>>, <<0, 4>>, <<4, 4>>, <<4, 4>>>>


\* the estimator behind a name given to print_metrics
ModelOf(name) ==
    CASE name = "bagging" -> "bagging_class"
      [] name = "Random Forest" -> "randomForest_class"
      [] name = "AdaBoost" -> "adaBoost_class"
      [] name = "Naive Bayes" -> "naive_bayes"
      [] OTHER -> name

\* the kernel is about to run a fit of the ensembles notebook
AtFit == nb = "spam" /\ error = "none" /\ at \in 1..Len(Program) /\ Stmt.op = "fit"

MetricCalls == SelectSeq(trace, LAMBDA t : t.op = "print_metrics")

\* C17: every print_metrics call gets y_test and the predictions its model
\* made on testing_data, and prints the accuracy, the precision, the recall
\* and the F1 score in this order under the model's name, each computed from
\* that pair of labels and predictions.
C17_FourMetrics ==
    nb = "spam" =>
        \A c \in 1..Len(MetricCalls) :
            LET call == MetricCalls[c]
                base == 4 + 5 * (c - 1)
            IN  /\ call.X = ns.y_test
                /\ \E j \in 1..Len(trace) :
                      /\ trace[j].op = "predict"
                      /\ trace[j].m = ModelOf(call.m)
                      /\ trace[j].arg = "testing_data"
                      /\ trace[j].X = ns.testing_data
                      /\ trace[j].ret = call.ret
                /\ stdout[base + 1] = Line("Accuracy", call.m, accuracy_score(call.X, call.ret))
                /\ stdout[base + 2] = Line("Precision", call.m, precision_score(call.X, call.ret))
                /\ stdout[base + 3] = Line("Recall", call.m, recall_score(call.X, call.ret))
                /\ stdout[base + 4] = Line("F1", call.m, f1_score(call.X, call.ret))
                /\ stdout[base + 5] = Blank

C17_Witness ==
    /\ nb = "spam" /\ error = "none" /\ at = Len(Program) + 1
    /\ Len(MetricCalls) = 4 /\ Len(stdout) = 24
    /\ ns.y_test = <<0>>
    /\ ns.bagging_pred = <<0>> /\ ns.random_pred = <<1>>
    /\ ns.ada_pred = <<0>> /\ ns.predictions = <<1>>

\* C18: in the regularization notebook X is every row of the loaded table
\* without its last column, which is its first six columns, y is the last
\* column, row k of X and entry k of y come from row k of the table, the
\* model is fit on this X and this y, and the coefficients read back are one
\* per column of X.
C18_SplitFitCoef ==
    (nb = "lasso" /\ "X" \in DOMAIN ns) =>
        /\ Len(ns.X) = Len(ns.train_data) /\ Len(ns.y) = Len(ns.train_data)
        /\ \A k \in 1..Len(ns.train_data) :
              /\ Len(ns.X[k]) = predictors
              /\ Len(ns.train_data[k]) = predictors + 1
              /\ \A c \in 1..predictors : ns.X[k][c] = ns.train_data[k][c]
              /\ ns.y[k] = ns.train_data[k][Len(ns.train_data[k])]
        /\ ("lasso_reg" \in DOMAIN ns /\ ns.lasso_reg.fitted # <<>>) =>
              ns.lasso_reg.fitted = <<[X |-> ns.X, y |-> ns.y]>>
        /\ "reg_coef" \in DOMAIN ns =>
              /\ Len(ns.reg_coef) = predictors
              /\ Len(ns.reg_coef) = Len(ns.X[1])
              /\ ns.reg_coef = ns.lasso_reg.coef_

C18_Witness ==
    /\ nb = "lasso" /\ error = "none" /\ at = Len(Program) + 1
    /\ Len(ns.train_data) = 3
    /\ ns.train_data[1] # ns.train_data[2]
    /\ ns.reg_coef = <<0, 2, 2, 0, 2, 0>>

\* the statements that use a fitted model
UsesFit == {"predict", "score", "print_metrics", "coef_"}

\* C19: a script notebook run top to bottom raises no exception (no name is
\* read before it is defined, no model is used before its fit), and every
\* prediction, score and coefficient read-back comes after the fit of its
\* model, every fit after the construction of its model, and every
\* construction after the data was loaded.
C19_LinearScript ==
    nb \in {"spam", "lasso"} =>
        /\ error = "none"
        /\ \A i \in 1..Len(trace) :
              /\ trace[i].op \in UsesFit =>
                    \E j \in 1..(i - 1) :
                        trace[j].op = "fit" /\ trace[j].m = ModelOf(trace[i].m)
              /\ trace[i].op = "fit" =>
                    \E j \in 1..(i - 1) :
                        trace[j].op = "construct" /\ trace[j].m = trace[i].m
              /\ trace[i].op = "construct" =>
                    \E j \in 1..(i - 1) : trace[j].op \in {"load", "read_csv"}

C19_Witness ==
    /\ nb = "spam" /\ error = "none" /\ at = Len(Program) + 1
    /\ Len(trace) = Len(SpamProgram)
    /\ {"predictions", "bagging_pred", "random_pred", "ada_pred"} \subseteq DOMAIN ns


\* the call's P has an entry outside the open interval (0, 1)
OutOfRange(c) == \E k \in 1..Len(c.P) : ~Interior(c.P[k])

\* C20 as stated: a call of cross_entropy or m_cross_entropy with a Y and a P
\* of different lengths, or with a P entry outside (0, 1), ends in an
\* exception and returns no value.
C20_AsStated ==
    \A i \in 1..Len(out) :
        (Len(out[i].Y) # Len(out[i].P) \/ OutOfRange(out[i]))
            => out[i].ret.k = "ValueError"

\* C20 amended: neither function catches or repairs malformed input. A Y and
\* a P of different lengths, neither of them 1, end the call in numpy's
\* ValueError; different lengths of which one is 1 are broadcast and a value
\* is returned; with equal lengths a P entry outside (0, 1) raises nothing
\* and the value returned is inf or nan.
C20_NoErrorHandling ==
    \A i \in 1..Len(out) :
        LET Y == out[i].Y
            P == out[i].P
        IN  /\ (Len(Y) # Len(P) /\ Len(Y) # 1 /\ Len(P) # 1)
                  => out[i].ret.k = "ValueError"
            /\ (Len(Y) # Len(P) /\ (Len(Y) = 1 \/ Len(P) = 1))
                  => out[i].ret.k # "ValueError"
            /\ (Len(Y) = Len(P) /\ OutOfRange(out[i]))
                  => out[i].ret.k \in {"inf", "ninf", "nan"}
            /\ Len(Y) = Len(P) => out[i].ret.k # "ValueError"

C20_Witness ==
    /\ Len(out) = 2
    /\ out[1].fn = "cross_entropy" /\ out[2].fn = "m_cross_entropy"
    /\ Len(argY) = 2 /\ Len(argP) = 3
    /\ out[1].ret = ValueError /\ out[2].ret = ValueError


\* C21: the parameters of a model are written by one optimizer only. Once
\* built, the parameters of the model of "Loss and Autograd together" change
\* only in the optimizer.step() of the optimizer built from them (lr=0.01);
\* the weights of the model of the training cell change only in the
\* optimizer.step() of the training loop; and no step of the training loop
\* changes the parameters of the earlier model.
C21_OneWriter ==
    [][ /\ (wA # <<>> /\ wA' # wA) =>
              /\ nb = "autograd" /\ cell = "step"
              /\ stepsA' = stepsA + 1 /\ lrA = lrWalk
              /\ UNCHANGED <<w, steps>>
        /\ (nb = "train" /\ w' # w) =>
              /\ pc = "step" /\ steps' = steps + 1
              /\ UNCHANGED <<wA, stepsA>>
        /\ (steps' # steps /\ nb = "train") => wA' = wA ]_vars

C21_Witness ==
    /\ nb = "train" /\ cell = "training"
    /\ stepsA = 1 /\ steps >= 2
    /\ wA = <<10 - lrWalk, 10 + lrWalk>>
    /\ w = 10 - 2 * lr


\* C22: the training loop reports once per epoch. running_loss is set to 0
\* when an epoch starts; a line is printed only after the last batch of the
\* epoch has been processed, one line per epoch; a batch of the next epoch is
\* drawn only after the line of the epoch before; and when the loop is done
\* exactly 5 lines have been printed.
C22_OnePrintPerEpoch ==
    [][ nb = "train" =>
          /\ (printed' # printed) =>
                /\ pc = "print"
                /\ Len(printed') = Len(printed) + 1
                /\ Len(printed) = e /\ e' = e + 1
                /\ b = nBatches
                /\ fetched = (e + 1) * nBatches /\ steps = fetched
          /\ (fetched' # fetched) =>
                /\ Len(printed) = e
                /\ fetched = e * nBatches + b
          /\ (e' # e) => Len(printed') = e'
          /\ (pc = "epoch" /\ pc' = "batch") => running_loss' = 0
          /\ (pc' = "done") => Len(printed') = 5 ]_vars

C22_Witness ==
    /\ nb = "train" /\ pc = "done"
    /\ nBatches = 2 /\ fetched = 10
    /\ Len(printed) = 5 /\ running_loss > 0


\* C23: the value printed for an epoch is the sum of the loss values of the
\* batches of that epoch, each taken after the forward pass of its batch and
\* before the weight update of its batch, divided by the number of batches;
\* every batch of the epoch enters once and nothing of an earlier epoch does.
C23_MeanOfEpochLosses ==
    [][ nb = "train" =>
          /\ (batch_losses' # batch_losses) =>
                \/ pc = "epoch" /\ batch_losses' = <<>>
                \/ /\ pc = "loss"
                   /\ batch_losses' = Append(batch_losses, loss'.item)
                   /\ FirstAt(ops, "forward") > 0
                   /\ FirstAt(ops, "step") = 0
          /\ (printed' # printed) =>
                /\ Len(batch_losses) = nBatches
                /\ printed'[Len(printed')] = <<SumInts(batch_losses, 1), nBatches>> ]_vars

C23_Witness ==
    /\ nb = "train" /\ nBatches = 2
    /\ Len(printed) = 2 /\ pc = "epoch"
    /\ printed[1] = <<3, 2>> /\ printed[2] = <<4, 2>>
    /\ batch_losses = <<2, 2>>


\* the gradient of the loss of the single training step, for each parameter
StepGradient == <<<<lossA.g[1]>>, <<lossA.g[2]>>>>

\* C24: in the single training step the gradient left by the backward pass
\* of "Loss and Autograd together" is zero after optimizer.zero_grad(); the
\* gradient printed after the new loss.backward() is the gradient of the
\* loss of the batch of this cell alone, and it is the gradient that
\* optimizer.step() applies.
C24_WalkthroughGradient ==
    nb = "autograd" =>
        /\ cell \in {"forward_loss", "backward"} => gradA = <<<<0>>, <<0>>>>
        /\ Printed("Gradient") =>
              /\ PrintedVals("Gradient") = {StepGradient}
              /\ gradA = StepGradient
        /\ Printed("Updated weights") =>
              \E before \in PrintedVals("Initial weights") :
                  \A i \in 1..2 : wA[i] = before[i] - lrWalk * lossA.g[i]

C24_Witness ==
    /\ nb = "autograd" /\ cell = "end" /\ stepsA = 1
    /\ PrintedVals("After backward pass") = {<<<<1>>, <<-1>>>>}
    /\ PrintedVals("Gradient") = {<<<<1>>, <<-1>>>>}
    /\ PrintedVals("Initial weights") = {<<0, 10>>}
    /\ wA = <<0 - lrWalk, 10 + lrWalk>>

====
